---- MODULE Spec2Model ----
(***************************************************************************)
(* Model of Source/Core/BSpline.js: the BSpline constructor and            *)
(* BSpline.prototype.evaluate, with the module-level scratch vectors and   *)
(* the coefficient matrix.                                                 *)
(*                                                                         *)
(* JavaScript numbers are IEEE-754 binary64 values with round to nearest,   *)
(* ties to even, on every operation.  Array indices are the code's 0-based *)
(* indices; At(a, i) is the JavaScript read a[i].                          *)
(***************************************************************************)
EXTENDS Integers, Sequences, FiniteSets, TLC

VARIABLES
    curves,                    \* the BSpline objects: times, points, _lastTimeIndex
    bSplineCoefficientMatrix,  \* the object BSpline.bSplineCoefficientMatrix
    scratchTimeVec,            \* module-level scratch Cartesian4
    scratchTemp0,              \* module-level scratch Cartesian3
    scratchTemp1,              \* module-level scratch Cartesian3
    resultBuf,                 \* a Cartesian3 of the caller, passed as result
    lastCall,                  \* the last call made: its arguments and what it returned
    pc,                        \* where each interleaved evaluate call stands
    frame                      \* the locals of each interleaved evaluate call

vars == <<curves, bSplineCoefficientMatrix, scratchTimeVec, scratchTemp0, scratchTemp1,
          resultBuf, lastCall, pc, frame>>

---------------------------------------------------------------------------
(* Bounds of the model *)

MaxLen == 3

Instances == {1, 2}

---------------------------------------------------------------------------
(* JavaScript values *)

Undefined == [kind |-> "undefined"]

defined(v) == v.kind # "undefined"

Err(e) == [kind |-> "error", error |-> e]

(* Natural numbers of any size: little-endian sequences of limbs in        *)
(* 0 .. Base-1 with no leading zero limb; <<>> is zero.                     *)
LimbBits == 15

Base == 32768

Pow2(k) == 2 ^ k

Limb(a, i) == IF i <= Len(a) THEN a[i] ELSE 0

RECURSIVE BStrip(_)
BStrip(a) ==
    IF a = <<>> THEN a
    ELSE IF a[Len(a)] = 0 THEN BStrip(SubSeq(a, 1, Len(a) - 1)) ELSE a

RECURSIVE BFromNat(_)
BFromNat(n) == IF n = 0 THEN <<>> ELSE <<n % Base>> \o BFromNat(n \div Base)

RECURSIVE BAddC(_, _, _, _)
BAddC(a, b, i, c) ==
    IF i > Len(a) /\ i > Len(b) THEN (IF c = 0 THEN <<>> ELSE <<c>>)
    ELSE LET t == Limb(a, i) + Limb(b, i) + c
         IN  <<t % Base>> \o BAddC(a, b, i + 1, t \div Base)

BAdd(a, b) == BAddC(a, b, 1, 0)

(* a - b for a >= b *)
RECURSIVE BSubC(_, _, _, _)
BSubC(a, b, i, borrow) ==
    IF i > Len(a) THEN <<>>
    ELSE LET d == Limb(a, i) - Limb(b, i) - borrow
         IN  <<IF d < 0 THEN d + Base ELSE d>> \o BSubC(a, b, i + 1, IF d < 0 THEN 1 ELSE 0)

BSub(a, b) == BStrip(BSubC(a, b, 1, 0))

RECURSIVE BCmpFrom(_, _, _)
BCmpFrom(a, b, i) ==
    IF i = 0 THEN 0
    ELSE IF a[i] < b[i] THEN -1
    ELSE IF a[i] > b[i] THEN 1
    ELSE BCmpFrom(a, b, i - 1)

BCmp(a, b) ==
    IF Len(a) < Len(b) THEN -1
    ELSE IF Len(a) > Len(b) THEN 1
    ELSE BCmpFrom(a, b, Len(a))

(* a * m for 0 <= m <= Base *)
RECURSIVE BMulSmallC(_, _, _, _)
BMulSmallC(a, m, i, c) ==
    IF i > Len(a) THEN (IF c = 0 THEN <<>> ELSE <<c>>)
    ELSE LET t == a[i] * m + c
         IN  <<t % Base>> \o BMulSmallC(a, m, i + 1, t \div Base)

BMulSmall(a, m) == IF m = 0 THEN <<>> ELSE BMulSmallC(a, m, 1, 0)

ShiftLimbs(a, k) == IF a = <<>> THEN a ELSE [j \in 1 .. k |-> 0] \o a

RECURSIVE BMulFrom(_, _, _)
BMulFrom(a, b, j) ==
    IF j > Len(b) THEN <<>>
    ELSE BAdd(ShiftLimbs(BMulSmall(a, b[j]), j - 1), BMulFrom(a, b, j + 1))

BMul(a, b) == IF Len(a) >= Len(b) THEN BMulFrom(a, b, 1) ELSE BMulFrom(b, a, 1)

(* quotient and remainder of a by d, for 0 < d < Base *)
RECURSIVE BDivSmallFrom(_, _, _, _)
BDivSmallFrom(a, d, i, rem) ==
    IF i = 0 THEN [q |-> <<>>, r |-> rem]
    ELSE LET cur == rem * Base + a[i]
             rest == BDivSmallFrom(a, d, i - 1, cur % d)
         IN  [q |-> rest.q \o <<cur \div d>>, r |-> rest.r]

BDivSmall(a, d) ==
    LET x == BDivSmallFrom(a, d, Len(a), 0)
    IN  [q |-> BStrip(x.q), r |-> BFromNat(x.r)]

BShl(a, k) == ShiftLimbs(BMulSmall(a, Pow2(k % LimbBits)), k \div LimbBits)

BShr(a, k) ==
    IF k \div LimbBits >= Len(a) THEN <<>>
    ELSE BDivSmall(SubSeq(a, (k \div LimbBits) + 1, Len(a)), Pow2(k % LimbBits)).q

(* bit j of a, bit 0 the lowest *)
BBit(a, j) == (Limb(a, (j \div LimbBits) + 1) \div Pow2(j % LimbBits)) % 2

(* whether one of the bits 0 .. j-1 of a is set *)
BLowNonZero(a, j) ==
    \/ \E i \in 1 .. (j \div LimbBits) : Limb(a, i) # 0
    \/ Limb(a, (j \div LimbBits) + 1) % Pow2(j % LimbBits) # 0

RECURSIVE NatBitLen(_)
NatBitLen(n) == IF n = 0 THEN 0 ELSE 1 + NatBitLen(n \div 2)

BBitLen(a) == IF a = <<>> THEN 0 ELSE LimbBits * (Len(a) - 1) + NatBitLen(a[Len(a)])

(* the number of zero bits below the lowest set bit of a # 0 *)
BTrailingZeros(a) ==
    LET i == CHOOSE i \in 1 .. Len(a) : a[i] # 0 /\ \A j \in 1 .. (i - 1) : a[j] = 0
        t == CHOOSE t \in 0 .. (LimbBits - 1) : a[i] % Pow2(t) = 0 /\ a[i] % Pow2(t + 1) # 0
    IN  LimbBits * (i - 1) + t

(* q, or q - 1 when q * b exceeds r *)
BDivFit(r, b, q) == IF BCmp(BMulSmall(b, q), r) > 0 THEN q - 1 ELSE q

(* the limb q with q * b <= r < (q + 1) * b, for r < b * Base and the top  *)
(* limb of b at least Base / 2: the estimate from the top limbs is at most *)
(* two too large.                                                          *)
BDivDigit(r, b) ==
    LET est == (Limb(r, Len(b) + 1) * Base + Limb(r, Len(b))) \div b[Len(b)]
    IN  BDivFit(r, b, BDivFit(r, b, IF est > Base - 1 THEN Base - 1 ELSE est))

BDivPut(rest, d) == [q |-> rest.q \o <<d>>, r |-> rest.r]

(* quotient and remainder of a by b, one limb of a at a time from the top *)
RECURSIVE BDivLimbs(_, _, _, _)
BDivNext(a, b, i, cur, d) == BDivPut(BDivLimbs(a, b, i - 1, BSub(cur, BMulSmall(b, d))), d)

BDivLimbs(a, b, i, rem) ==
    IF i = 0 THEN [q |-> <<>>, r |-> rem]
    ELSE BDivNext(a, b, i, BStrip(<<Limb(a, i)>> \o rem),
                  BDivDigit(BStrip(<<Limb(a, i)>> \o rem), b))

BDivUnscale(x, s) == [q |-> BStrip(x.q), r |-> BShr(x.r, s)]

(* quotient and remainder of a by b # 0; a and b are first scaled so that  *)
(* the top limb of b is at least Base / 2                                  *)
BDivMod(a, b) ==
    LET s == LimbBits - NatBitLen(b[Len(b)])
    IN  IF Len(b) = 1 THEN BDivSmall(a, b[1])
        ELSE BDivUnscale(BDivLimbs(BShl(a, s), BShl(b, s), Len(a) + 1, <<>>), s)

(* JavaScript numbers: IEEE-754 binary64.  A finite number is               *)
(* (-1)^neg * man * 2^exp with man odd (or man = <<>>, exp = 0 for the two  *)
(* zeros); the others are NaN and the two infinities.                       *)
MantissaBits == 53

MinExponent == -1074

Guard == MantissaBits + 4

MaxMagnitudeBits == 1024

NaN == [kind |-> "NaN"]

Infinity(neg) == [kind |-> "Infinity", neg |-> neg]

Finite(neg, man, exp) == [kind |-> "number", neg |-> neg, man |-> man, exp |-> exp]

Zero(neg) == Finite(neg, <<>>, 0)

IsZero(a) == a.kind = "number" /\ a.man = <<>>

CanonShift(neg, man, exp, tz) == Finite(neg, BShr(man, tz), exp + tz)

Canon(neg, man, exp) ==
    IF man = <<>> THEN Zero(neg)
    ELSE IF BBitLen(man) + exp > MaxMagnitudeBits THEN Infinity(neg)
    ELSE CanonShift(neg, man, exp, BTrailingZeros(man))

(* the exponent of the last bit kept of a number of len bits above exp *)
Cut(exp, len) ==
    IF exp + len - MantissaBits > MinExponent THEN exp + len - MantissaBits ELSE MinExponent

(* q = man with its k lowest bits dropped, or the next number up when the  *)
(* dropped bits are more than half, or half with q odd                     *)
RoundedUp(man, k, q) ==
    IF BBit(man, k - 1) = 1 /\ (BLowNonZero(man, k - 1) \/ BBit(q, 0) = 1)
    THEN BAdd(q, <<1>>) ELSE q

RoundAt(neg, man, exp, cut) ==
    Canon(neg,
          IF cut <= exp THEN man ELSE RoundedUp(man, cut - exp, BShr(man, cut - exp)),
          IF cut <= exp THEN exp ELSE cut)

(* the binary64 nearest to (-1)^neg * man * 2^exp, ties to even *)
Round(neg, man, exp) == RoundAt(neg, man, exp, Cut(exp, BBitLen(man)))

Abs(n) == IF n < 0 THEN -n ELSE n

(* the number an integer literal denotes *)
Num(n) == Round(n < 0, BFromNat(Abs(n)), 0)

Negate(a) ==
    IF a.kind = "NaN" THEN a
    ELSE IF a.kind = "Infinity" THEN Infinity(~a.neg)
    ELSE Finite(~a.neg, a.man, a.exp)

(* the exponent above the top bit of a finite a # 0 *)
Top(a) == a.exp + BBitLen(a.man)

(* a + b from the significands ma, mb of a, b at the common exponent e and *)
(* c = BCmp(ma, mb); equal magnitudes of opposite sign give +0             *)
PlusAligned(a, b, ma, mb, e, c) ==
    IF a.neg # b.neg /\ c = 0 THEN Zero(FALSE)
    ELSE Round(IF a.neg = b.neg \/ c > 0 THEN a.neg ELSE b.neg,
               IF a.neg = b.neg THEN BAdd(ma, mb)
               ELSE IF c > 0 THEN BSub(ma, mb) ELSE BSub(mb, ma),
               e)

PlusShifted(a, b, ma, mb, e) == PlusAligned(a, b, ma, mb, e, BCmp(ma, mb))

PlusAt(a, b, e) == PlusShifted(a, b, BShl(a.man, a.exp - e), BShl(b.man, b.exp - e), e)

(* An operand whose top bit is Guard or more bits below the other's top    *)
(* bit is less than a quarter of the other's last place: the sum rounds to *)
(* the other operand.                                                      *)
PlusFinite(a, b, ta, tb) ==
    IF ta - tb >= Guard THEN a
    ELSE IF tb - ta >= Guard THEN b
    ELSE PlusAt(a, b, IF a.exp < b.exp THEN a.exp ELSE b.exp)

Plus(a, b) ==
    IF a.kind = "NaN" \/ b.kind = "NaN" THEN NaN
    ELSE IF a.kind = "Infinity"
         THEN (IF b.kind = "Infinity" /\ b.neg # a.neg THEN NaN ELSE a)
    ELSE IF b.kind = "Infinity" THEN b
    ELSE IF IsZero(a) /\ IsZero(b) THEN Zero(a.neg /\ b.neg)
    ELSE IF IsZero(a) THEN b
    ELSE IF IsZero(b) THEN a
    ELSE PlusFinite(a, b, Top(a), Top(b))

Minus(a, b) == Plus(a, Negate(b))

Times(a, b) ==
    IF a.kind = "NaN" \/ b.kind = "NaN" THEN NaN
    ELSE IF a.kind = "Infinity" \/ b.kind = "Infinity"
         THEN (IF IsZero(a) \/ IsZero(b) THEN NaN ELSE Infinity(a.neg # b.neg))
    ELSE IF IsZero(a) \/ IsZero(b) THEN Zero(a.neg # b.neg)
    ELSE Round(a.neg # b.neg, BMul(a.man, b.man), a.exp + b.exp)

(* the quotient d.q with two more bits: a zero and whether d.r # 0 *)
OverRound(neg, d, exp) ==
    Round(neg, BAdd(BMulSmall(d.q, 4), IF d.r = <<>> THEN <<>> ELSE <<1>>), exp - 2)

(* a / b for finite nonzero a, b, from the quotient of a.man * 2^k by b.man *)
OverAt(a, b, k) ==
    OverRound(a.neg # b.neg,
              IF b.man = <<1>> THEN [q |-> a.man, r |-> <<>>]
              ELSE BDivMod(BShl(a.man, k), b.man),
              a.exp - b.exp - k)

(* the bits to scale a.man by for a quotient of MantissaBits + 2 bits or   *)
(* more                                                                    *)
OverBits(la, lb) ==
    IF (MantissaBits + 2) + lb - la > 0 THEN (MantissaBits + 2) + lb - la ELSE 0

Over(a, b) ==
    IF a.kind = "NaN" \/ b.kind = "NaN" THEN NaN
    ELSE IF a.kind = "Infinity"
         THEN (IF b.kind = "Infinity" THEN NaN ELSE Infinity(a.neg # b.neg))
    ELSE IF b.kind = "Infinity" THEN Zero(a.neg # b.neg)
    ELSE IF IsZero(b) THEN (IF IsZero(a) THEN NaN ELSE Infinity(a.neg # b.neg))
    ELSE IF IsZero(a) THEN Zero(a.neg # b.neg)
    ELSE OverAt(a, b, IF b.man = <<1>> THEN 0 ELSE OverBits(BBitLen(a.man), BBitLen(b.man)))

(* -1, 0 or 1 as |a| < |b|, |a| = |b| or |a| > |b|, for finite nonzero a, *)
(* b with the exponents ta, tb above their top bits                        *)
CompareMagnitude(a, b, ta, tb, e) ==
    IF ta < tb THEN -1
    ELSE IF ta > tb THEN 1
    ELSE BCmp(BShl(a.man, a.exp - e), BShl(b.man, b.exp - e))

Opposite(neg, c) == IF neg THEN -c ELSE c

(* -1, 0 or 1 as a < b, a = b or a > b; neither is NaN *)
Compare(a, b) ==
    IF IsZero(a) /\ IsZero(b) THEN 0
    ELSE IF a.kind = "Infinity" /\ b.kind = "Infinity"
         THEN (IF a.neg = b.neg THEN 0 ELSE IF a.neg THEN -1 ELSE 1)
    ELSE IF a.kind = "Infinity" THEN (IF a.neg THEN -1 ELSE 1)
    ELSE IF b.kind = "Infinity" THEN (IF b.neg THEN 1 ELSE -1)
    ELSE IF IsZero(a) THEN (IF b.neg THEN 1 ELSE -1)
    ELSE IF IsZero(b) THEN (IF a.neg THEN -1 ELSE 1)
    ELSE IF a.neg # b.neg THEN (IF a.neg THEN -1 ELSE 1)
    ELSE Opposite(a.neg, CompareMagnitude(a, b, Top(a), Top(b),
                                          IF a.exp < b.exp THEN a.exp ELSE b.exp))

Less(a, b) == a.kind # "NaN" /\ b.kind # "NaN" /\ Compare(a, b) < 0

Leq(a, b) == a.kind # "NaN" /\ b.kind # "NaN" /\ Compare(a, b) <= 0

Array(s) == [kind |-> "array", elems |-> s]

length(a) == Len(a.elems)

At(a, i) == IF i \in 0 .. (length(a) - 1) THEN a.elems[i + 1] ELSE Undefined

Cartesian3(x, y, z) == [kind |-> "Cartesian3", x |-> x, y |-> y, z |-> z]

Cartesian4(x, y, z, w) == [kind |-> "Cartesian4", x |-> x, y |-> y, z |-> z, w |-> w]

Cartesian3_subtract(left, right) ==
    IF ~defined(left) \/ ~defined(right) THEN Err("CARTESIAN_REQUIRED")
    ELSE IF left.kind = "error" THEN left
    ELSE IF right.kind = "error" THEN right
    ELSE Cartesian3(Minus(left.x, right.x), Minus(left.y, right.y), Minus(left.z, right.z))

Cartesian3_add(left, right) ==
    IF ~defined(left) \/ ~defined(right) THEN Err("CARTESIAN_REQUIRED")
    ELSE IF left.kind = "error" THEN left
    ELSE IF right.kind = "error" THEN right
    ELSE Cartesian3(Plus(left.x, right.x), Plus(left.y, right.y), Plus(left.z, right.z))

Cartesian3_multiplyByScalar(cartesian, scalar) ==
    IF ~defined(cartesian) THEN Err("CARTESIAN_REQUIRED")
    ELSE IF cartesian.kind = "error" THEN cartesian
    ELSE Cartesian3(Times(cartesian.x, scalar), Times(cartesian.y, scalar),
                    Times(cartesian.z, scalar))

(* new Matrix4(...) takes its sixteen arguments row by row. *)
Matrix4(r0, r1, r2, r3) == [kind |-> "Matrix4", rows |-> <<r0, r1, r2, r3>>]

Matrix4_multiplyByScalar(matrix, scalar) ==
    [kind |-> "Matrix4",
     rows |-> [r \in 1 .. 4 |-> [c \in 1 .. 4 |-> Times(matrix.rows[r][c], scalar)]]]

RowDot(row, v) ==
    Plus(Plus(Plus(Times(row[1], v.x), Times(row[2], v.y)), Times(row[3], v.z)), row[4])

(* The matrix-vector product of the matrix and (x, y, z, 1); it fails when  *)
(* no matrix is given.                                                      *)
Matrix4_multiplyByPoint(matrix, cartesian) ==
    IF ~defined(matrix) THEN Err("MATRIX_REQUIRED")
    ELSE Cartesian4(RowDot(matrix.rows[1], cartesian), RowDot(matrix.rows[2], cartesian),
                    RowDot(matrix.rows[3], cartesian), RowDot(matrix.rows[4], cartesian))

---------------------------------------------------------------------------
(* BSpline.js *)

NoCurve == [kind |-> "none"]

(* the constructor with the two length checks in the other order *)
BSpline_mismatchFirst(options) ==
    LET times == options.times
        points == options.points
    IN  IF ~defined(times) THEN Err("MISSING_ARGUMENT")
        ELSE IF ~defined(points) THEN Err("MISSING_ARGUMENT")
        ELSE IF length(times) # length(points) THEN Err("LENGTH_MISMATCH")
        ELSE IF length(points) < 2 THEN Err("INVALID_LENGTH")
        ELSE [kind |-> "curve", times |-> times, points |-> points, lastTimeIndex |-> 0]

(* the constructor with the minimum length off by one: points.length < 1 *)
BSpline_minLengthOne(options) ==
    LET times == options.times
        points == options.points
    IN  IF ~defined(times) THEN Err("MISSING_ARGUMENT")
        ELSE IF ~defined(points) THEN Err("MISSING_ARGUMENT")
        ELSE IF length(points) < 1 THEN Err("INVALID_LENGTH")
        ELSE IF length(times) # length(points) THEN Err("LENGTH_MISMATCH")
        ELSE [kind |-> "curve", times |-> times, points |-> points, lastTimeIndex |-> 0]

BSpline(options) ==
    LET times == options.times
        points == options.points
    IN  IF ~defined(times) THEN Err("MISSING_ARGUMENT")
        ELSE IF ~defined(points) THEN Err("MISSING_ARGUMENT")
        ELSE IF length(points) < 2 THEN Err("INVALID_LENGTH")
        ELSE IF length(times) # length(points) THEN Err("LENGTH_MISMATCH")
        ELSE [kind |-> "curve", times |-> times, points |-> points, lastTimeIndex |-> 0]

CoefficientMatrix ==
    Matrix4_multiplyByScalar(
        Matrix4(<<Num(-1), Num(3), Num(-3), Num(1)>>,
                <<Num(3), Num(-6), Num(0), Num(4)>>,
                <<Num(-3), Num(3), Num(3), Num(1)>>,
                <<Num(1), Num(0), Num(0), Num(0)>>),
        Over(Num(1), Num(6)))

(* evaluate reads BSpline.bezierCoefficientMatrix, a property the file      *)
(* never assigns.                                                           *)
bezierCoefficientMatrix == Undefined

InInterval(time, times, i) ==
    /\ i \in 0 .. (length(times) - 2)
    /\ Leq(At(times, i), time)
    /\ Less(time, At(times, i + 1))

(* the largest i <= length - 2 with times[i] <= time, the first interval   *)
(* when there is none                                                      *)
LargestIndex(time, times) ==
    LET S == {i \in 0 .. (length(times) - 2) : Leq(At(times, i), time)}
    IN  IF S = {} THEN 0 ELSE CHOOSE i \in S : \A j \in S : j <= i

findTimeInterval(time, startIndex, times) ==
    IF Less(time, At(times, 0)) \/ Less(At(times, length(times) - 1), time)
    THEN Err("OUT_OF_RANGE")
    ELSE IF InInterval(time, times, startIndex) THEN [kind |-> "index", i |-> startIndex]
    ELSE IF InInterval(time, times, startIndex + 1) THEN [kind |-> "index", i |-> startIndex + 1]
    ELSE IF InInterval(time, times, startIndex - 1) THEN [kind |-> "index", i |-> startIndex - 1]
    ELSE [kind |-> "index", i |-> LargestIndex(time, times)]

(* the hint kept in one place for all curves instead of on the instance *)
StoreInterval_shared(cs, id, i) ==
    [c \in DOMAIN cs |-> IF cs[c].kind = "curve" THEN [cs[c] EXCEPT !.lastTimeIndex = i]
                         ELSE cs[c]]

StoreInterval(cs, id, i) == [cs EXCEPT ![id].lastTimeIndex = i]

LocalParameter(time, times, i) ==
    Over(Minus(time, At(times, i)), Minus(At(times, i + 1), At(times, i)))

TimeVec(timeVec, u) ==
    [timeVec EXCEPT !.z = u, !.y = Times(u, u), !.x = Times(Times(u, u), u)]

(* the four control points and what scratchTemp0 receives (Undefined when *)
(* it is not written)                                                      *)
Window(p0, p1, p2, p3, temp0) ==
    [p0 |-> p0, p1 |-> p1, p2 |-> p2, p3 |-> p3, temp0 |-> temp0]

(* lines 151-157: p0 is scratchTemp0 *)
FirstWindow(p0, p1, p2, p3) == Window(p0, p1, p2, p3, p0)

(* lines 158-164: p3 is scratchTemp0 *)
LastWindow(p0, p1, p2, p3) == Window(p0, p1, p2, p3, p3)

ControlPoints(points, i) ==
    IF i = 0 THEN
        FirstWindow(Cartesian3_add(Cartesian3_subtract(At(points, 0), At(points, 1)),
                                   At(points, 0)),
                    At(points, 0), At(points, 1), At(points, 2))
    ELSE IF i = length(points) - 2 THEN
        LastWindow(At(points, i - 1), At(points, i), At(points, i + 1),
                   Cartesian3_add(Cartesian3_subtract(At(points, i + 1), At(points, i)),
                                  At(points, i + 1)))
    ELSE
        Window(At(points, i - 1), At(points, i), At(points, i + 1), At(points, i + 2),
               Undefined)

(* What lines 172-178 have done so far: value is the result object's value *)
(* or the first failure, result and temp1 are what the result object and   *)
(* scratchTemp1 hold (Undefined when no line has written them).            *)
Blended(value, result, temp1) == [value |-> value, result |-> result, temp1 |-> temp1]

(* line 172 *)
BlendFirst(r0) ==
    IF r0.kind = "Cartesian3" THEN Blended(r0, r0, Undefined)
    ELSE Blended(r0, Undefined, Undefined)

(* lines 174, 176, 178: the sum of the result and scratchTemp1 = t *)
BlendSum(acc, t, r) ==
    IF r.kind = "Cartesian3" THEN Blended(r, r, t) ELSE Blended(r, acc.result, t)

(* lines 173, 175, 177: the product t goes to scratchTemp1, unless the     *)
(* multiplication fails                                                    *)
BlendProduct(acc, t) ==
    IF t.kind = "Cartesian3" THEN BlendSum(acc, t, Cartesian3_add(acc.result, t))
    ELSE Blended(t, acc.result, acc.temp1)

(* lines 173-174, 175-176 and 177-178; nothing runs after a failure *)
BlendNext(acc, p, w) ==
    IF acc.value.kind = "Cartesian3" THEN BlendProduct(acc, Cartesian3_multiplyByScalar(p, w))
    ELSE acc

(* lines 172-178 *)
Blend(cp, coefs) ==
    BlendNext(BlendNext(BlendNext(BlendFirst(Cartesian3_multiplyByScalar(cp.p0, coefs.x)),
                                  cp.p1, coefs.y),
                        cp.p2, coefs.z),
              cp.p3, coefs.w)

(* lines 172-178, with the control points cp and the weights coefs *)
evaluateBlend(cs, scratch, result, coefs, cp, b) ==
    [curves |-> cs,
     scratch |-> [timeVec |-> coefs,
                  temp0 |-> IF defined(cp.temp0) THEN cp.temp0 ELSE scratch.temp0,
                  temp1 |-> IF defined(b.temp1) THEN b.temp1 ELSE scratch.temp1],
     result |-> IF defined(result) /\ defined(b.result) THEN b.result ELSE result,
     outcome |-> b.value,
     coefs |-> coefs,
     window |-> [p0 |-> cp.p0, p1 |-> cp.p1, p2 |-> cp.p2, p3 |-> cp.p3]]

(* lines 146-178, with the weights coefs *)
evaluateWindow(cs, scratch, result, coefs, cp) ==
    evaluateBlend(cs, scratch, result, coefs, cp, Blend(cp, coefs))

(* lines 144-178, given what Matrix4.multiplyByPoint returned or threw *)
evaluateCoefs(cs, id, scratch, result, coefs) ==
    IF coefs.kind = "error" THEN
        [curves |-> cs, scratch |-> scratch, result |-> result, outcome |-> coefs,
         coefs |-> Undefined, window |-> Undefined]
    ELSE
        evaluateWindow(cs, scratch, result, coefs,
                       ControlPoints(cs[id].points, cs[id].lastTimeIndex))

(* Lines 144-178: scratch.timeVec already holds the monomial vector. *)
evaluateRest(cs, id, scratch, result) ==
    evaluateCoefs(cs, id, scratch, result,
                  Matrix4_multiplyByPoint(bezierCoefficientMatrix, scratch.timeVec))

(* Lines 136-178, given what findTimeInterval returned or threw. *)
evaluateFrom(cs, id, scratch, time, result, loc) ==
    IF loc.kind = "error" THEN
        [curves |-> cs, scratch |-> scratch, result |-> result, outcome |-> loc,
         coefs |-> Undefined, window |-> Undefined]
    ELSE
        LET u == LocalParameter(time, cs[id].times, loc.i)
        IN  evaluateRest(StoreInterval(cs, id, loc.i), id,
                         [scratch EXCEPT !.timeVec = TimeVec(scratch.timeVec, u)], result)

(* evaluate clamping the time into [times[0], times[last]] before the search *)
evaluate_clamped(cs, id, scratch, time, result) ==
    LET times == cs[id].times
        lo == At(times, 0)
        hi == At(times, length(times) - 1)
        t == IF Less(time, lo) THEN lo ELSE IF Less(hi, time) THEN hi ELSE time
    IN  evaluateFrom(cs, id, scratch, t, result,
                     findTimeInterval(t, cs[id].lastTimeIndex, times))

evaluate(cs, id, scratch, time, result) ==
    evaluateFrom(cs, id, scratch, time, result,
                 findTimeInterval(time, cs[id].lastTimeIndex, cs[id].times))

---------------------------------------------------------------------------
(* Inputs *)

(* the arrays 0, 1, ..., n-1 of up to MaxLen times, and two arrays of two  *)
(* times the constructor accepts as well: one interval of length 3/2, and  *)
(* a repeated time                                                         *)
TimeArrays ==
    {Array([k \in 1 .. n |-> Num(k - 1)]) : n \in 0 .. MaxLen}
        \cup {Array(<<Num(0), Over(Num(3), Num(2))>>), Array(<<Num(0), Num(0)>>)}

ControlPoint(k) == Cartesian3(Num(k - 1), Num((k - 1) * (k - 1)), Num(1 - k))

PointArrays == {Array([k \in 1 .. n |-> ControlPoint(k)]) : n \in 0 .. MaxLen}

(* the halves from just below the first time to just above the last *)
QueryTimes == {Over(Num(n), Num(2)) : n \in -1 .. (2 * MaxLen - 1)}

Scratch == [timeVec |-> scratchTimeVec, temp0 |-> scratchTemp0, temp1 |-> scratchTemp1]

IdleFrame == [time |-> Num(0), i |-> 0, outcome |-> Undefined]

---------------------------------------------------------------------------
(* The calls a program makes, each run to completion *)

Init ==
    /\ curves = [id \in Instances |-> NoCurve]
    /\ bSplineCoefficientMatrix = CoefficientMatrix
    /\ scratchTimeVec = Cartesian4(Num(0), Num(0), Num(0), Num(0))
    /\ scratchTemp0 = Cartesian3(Num(0), Num(0), Num(0))
    /\ scratchTemp1 = Cartesian3(Num(0), Num(0), Num(0))
    /\ resultBuf = Cartesian3(Num(0), Num(0), Num(0))
    /\ lastCall = [op |-> "none"]
    /\ pc = [id \in Instances |-> "idle"]
    /\ frame = [id \in Instances |-> IdleFrame]

Construct(id, times, points) ==
    /\ curves[id].kind = "none"
    /\ LET r == BSpline([times |-> times, points |-> points])
       IN  /\ curves' = IF r.kind = "curve" THEN [curves EXCEPT ![id] = r] ELSE curves
           /\ lastCall' = [op |-> "construct", id |-> id, times |-> times,
                           points |-> points,
                           outcome |-> IF r.kind = "curve" THEN [kind |-> "constructed"]
                                       ELSE r]
    /\ UNCHANGED <<bSplineCoefficientMatrix, scratchTimeVec, scratchTemp0, scratchTemp1,
                   resultBuf, pc, frame>>

(* what the call evaluate(time, result) on curve id leaves behind, r being *)
(* what evaluate did; the caller passes its Cartesian3 as result or none   *)
Returned(id, time, withResult, r) ==
    /\ curves' = r.curves
    /\ scratchTimeVec' = r.scratch.timeVec
    /\ scratchTemp0' = r.scratch.temp0
    /\ scratchTemp1' = r.scratch.temp1
    /\ resultBuf' = IF withResult THEN r.result ELSE resultBuf
    /\ lastCall' = [op |-> "evaluate", id |-> id, time |-> time,
                    withResult |-> withResult,
                    hint |-> curves[id].lastTimeIndex,
                    before |-> curves,
                    outcome |-> r.outcome, coefs |-> r.coefs, window |-> r.window]

Evaluate(id, time, withResult) ==
    /\ curves[id].kind = "curve"
    /\ Returned(id, time, withResult,
                evaluate(curves, id, Scratch, time,
                         IF withResult THEN resultBuf ELSE Undefined))
    /\ UNCHANGED <<bSplineCoefficientMatrix, pc, frame>>

Next ==
    \/ \E id \in Instances, times \in TimeArrays \cup {Undefined},
          points \in PointArrays \cup {Undefined} : Construct(id, times, points)
    \/ \E id \in Instances, time \in QueryTimes, withResult \in BOOLEAN :
          Evaluate(id, time, withResult)

Spec == Init /\ [][Next]_vars

---------------------------------------------------------------------------
(* Two evaluate calls, each on its own curve, with their steps interleaved *)

ValidCurves ==
    {c \in {BSpline([times |-> t, points |-> p]) : t \in TimeArrays, p \in PointArrays} :
        c.kind = "curve"}

ConcInit ==
    /\ curves \in [Instances -> ValidCurves]
    /\ bSplineCoefficientMatrix = CoefficientMatrix
    /\ scratchTimeVec = Cartesian4(Num(0), Num(0), Num(0), Num(0))
    /\ scratchTemp0 = Cartesian3(Num(0), Num(0), Num(0))
    /\ scratchTemp1 = Cartesian3(Num(0), Num(0), Num(0))
    /\ resultBuf = Cartesian3(Num(0), Num(0), Num(0))
    /\ lastCall = [op |-> "none"]
    /\ pc = [id \in Instances |-> "idle"]
    /\ frame = [id \in Instances |-> IdleFrame]

(* line 136 *)
StepLocate(id, time) ==
    /\ pc[id] = "idle"
    /\ LET loc == findTimeInterval(time, curves[id].lastTimeIndex, curves[id].times)
       IN  IF loc.kind = "error"
           THEN /\ frame' = [frame EXCEPT ![id] = [time |-> time, i |-> 0, outcome |-> loc]]
                /\ pc' = [pc EXCEPT ![id] = "done"]
                /\ UNCHANGED curves
           ELSE /\ curves' = StoreInterval(curves, id, loc.i)
                /\ frame' = [frame EXCEPT ![id] = [time |-> time, i |-> loc.i,
                                                    outcome |-> Undefined]]
                /\ pc' = [pc EXCEPT ![id] = "l137"]
    /\ UNCHANGED <<bSplineCoefficientMatrix, scratchTimeVec, scratchTemp0, scratchTemp1,
                   resultBuf, lastCall>>

(* lines 137-142 *)
StepTimeVec(id) ==
    /\ pc[id] = "l137"
    /\ scratchTimeVec' = TimeVec(scratchTimeVec,
                                 LocalParameter(frame[id].time, curves[id].times, frame[id].i))
    /\ pc' = [pc EXCEPT ![id] = "l144"]
    /\ UNCHANGED <<curves, bSplineCoefficientMatrix, scratchTemp0, scratchTemp1,
                   resultBuf, lastCall, frame>>

Rested(id, r) ==
    /\ scratchTimeVec' = r.scratch.timeVec
    /\ scratchTemp0' = r.scratch.temp0
    /\ scratchTemp1' = r.scratch.temp1
    /\ frame' = [frame EXCEPT ![id].outcome = r.outcome]

(* lines 144-178 *)
StepRest(id) ==
    /\ pc[id] = "l144"
    /\ Rested(id, evaluateRest(curves, id, Scratch, Undefined))
    /\ pc' = [pc EXCEPT ![id] = "done"]
    /\ UNCHANGED <<curves, bSplineCoefficientMatrix, resultBuf, lastCall>>

StepReturn(id) ==
    /\ pc[id] = "done"
    /\ pc' = [pc EXCEPT ![id] = "idle"]
    /\ frame' = [frame EXCEPT ![id] = IdleFrame]
    /\ UNCHANGED <<curves, bSplineCoefficientMatrix, scratchTimeVec, scratchTemp0,
                   scratchTemp1, resultBuf, lastCall>>

ConcNext ==
    \/ \E id \in Instances, time \in QueryTimes : StepLocate(id, time)
    \/ \E id \in Instances : StepTimeVec(id)
    \/ \E id \in Instances : StepRest(id)
    \/ \E id \in Instances : StepReturn(id)

SpecConc == ConcInit /\ [][ConcNext]_vars

---------------------------------------------------------------------------
(* The selection of the four control points (lines 146-170), applied to    *)
(* every curve and located interval                                        *)

PointPool == {Cartesian3(Num(0), Num(0), Num(0)), Cartesian3(Num(1), Num(2), Num(-1))}

WindowPoints == UNION {[1 .. n -> PointPool] : n \in 2 .. (MaxLen + 1)}

WindowCurves ==
    {[kind |-> "curve", times |-> Array([k \in 1 .. Len(si[1]) |-> Num(k - 1)]),
      points |-> Array(si[1]), lastTimeIndex |-> si[2]] :
        si \in {x \in WindowPoints \X (0 .. (MaxLen - 1)) : x[2] <= Len(x[1]) - 2}}

WindowInit ==
    /\ curves \in {[id \in Instances |-> IF id = 1 THEN c ELSE NoCurve] : c \in WindowCurves}
    /\ bSplineCoefficientMatrix = CoefficientMatrix
    /\ scratchTimeVec = Cartesian4(Num(0), Num(0), Num(0), Num(0))
    /\ scratchTemp0 = Cartesian3(Num(0), Num(0), Num(0))
    /\ scratchTemp1 = Cartesian3(Num(0), Num(0), Num(0))
    /\ resultBuf = Cartesian3(Num(0), Num(0), Num(0))
    /\ lastCall = [op |-> "none"]
    /\ pc = [id \in Instances |-> "idle"]
    /\ frame = [id \in Instances |-> IdleFrame]

Selected(cp) ==
    /\ lastCall' = [op |-> "controlPoints",
                    window |-> [p0 |-> cp.p0, p1 |-> cp.p1, p2 |-> cp.p2, p3 |-> cp.p3]]
    /\ scratchTemp0' = IF defined(cp.temp0) THEN cp.temp0 ELSE scratchTemp0

SelectControlPoints ==
    /\ lastCall.op = "none"
    /\ Selected(ControlPoints(curves[1].points, curves[1].lastTimeIndex))
    /\ UNCHANGED <<curves, bSplineCoefficientMatrix, scratchTimeVec, scratchTemp1,
                   resultBuf, pc, frame>>

SpecWindow == WindowInit /\ [][SelectControlPoints]_vars

---------------------------------------------------------------------------
(* Properties *)

first(times) == At(times, 0)

last(times) == At(times, length(times) - 1)

InRange(time, times) == Leq(first(times), time) /\ Leq(time, last(times))

PristineScratch ==
    [timeVec |-> Cartesian4(Num(0), Num(0), Num(0), Num(0)),
     temp0 |-> Cartesian3(Num(0), Num(0), Num(0)),
     temp1 |-> Cartesian3(Num(0), Num(0), Num(0))]

Evaluated == lastCall.op = "evaluate"

Constructed == lastCall.op = "construct"

(* the curve the last evaluate call was made on, as it was before the call *)
Before == lastCall.before[lastCall.id]

IsPoint(v) == v.kind = "Cartesian3"

(* C1: on every curve the constructor accepts, curves of exactly 2 points   *)
(* included, evaluate(times[0]) and evaluate(times[last]) complete and      *)
(* return a point with three defined components.                            *)
C1_EndpointsReturnPoint ==
    (Evaluated /\ lastCall.time \in {first(Before.times), last(Before.times)})
        => IsPoint(lastCall.outcome)

(* C2: evaluate(t) with t in range returns a point, and that point is the   *)
(* same for every value of the cached hint in [0, len-2].                   *)
C2_HintIndependentPoint ==
    (Evaluated /\ InRange(lastCall.time, Before.times))
        => /\ IsPoint(lastCall.outcome)
           /\ \A h \in 0 .. (length(Before.times) - 2) :
                  evaluate(StoreInterval(lastCall.before, lastCall.id, h), lastCall.id,
                           PristineScratch, lastCall.time, Undefined).outcome
                      = lastCall.outcome

(* C3: evaluate(t) with t < times[0] or t > times[last] fails with          *)
(* OUT_OF_RANGE and leaves the hint, the points and the times of the curve  *)
(* as they were before the call.                                            *)
C3_OutOfRangeFails ==
    (Evaluated /\ ~InRange(lastCall.time, Before.times))
        => /\ lastCall.outcome = Err("OUT_OF_RANGE")
           /\ curves[lastCall.id] = Before

C3_Witness ==
    /\ Evaluated
    /\ Less(last(Before.times), lastCall.time)
    /\ Before.lastTimeIndex > 0
    /\ lastCall.outcome.kind = "error"

(* C4, as claimed: every construction with both inputs present and          *)
(* times.length # points.length fails with LENGTH_MISMATCH, also when       *)
(* points.length is 0 or 1.                                                 *)
C4_MismatchAlwaysLengthMismatch ==
    (Constructed /\ defined(lastCall.times) /\ defined(lastCall.points)
        /\ length(lastCall.times) # length(lastCall.points))
        => lastCall.outcome = Err("LENGTH_MISMATCH")

(* C4, amended: a construction with both inputs present and                 *)
(* times.length # points.length fails with LENGTH_MISMATCH when             *)
(* points.length >= 2, and with INVALID_LENGTH when points.length < 2.      *)
C4_MismatchFails ==
    (Constructed /\ defined(lastCall.times) /\ defined(lastCall.points)
        /\ length(lastCall.times) # length(lastCall.points))
        => lastCall.outcome = IF length(lastCall.points) >= 2 THEN Err("LENGTH_MISMATCH")
                              ELSE Err("INVALID_LENGTH")

C4_Witness ==
    /\ Constructed
    /\ defined(lastCall.times) /\ defined(lastCall.points)
    /\ length(lastCall.points) = 1
    /\ length(lastCall.times) = 2
    /\ lastCall.outcome = Err("INVALID_LENGTH")

(* C5: in every state of a constructed curve, points.length = times.length, *)
(* points.length >= 2 and the hint is an integer in [0, points.length - 2]. *)
C5_CurveInvariant ==
    \A id \in Instances :
        curves[id].kind = "curve"
            => /\ length(curves[id].points) = length(curves[id].times)
               /\ length(curves[id].points) >= 2
               /\ curves[id].lastTimeIndex \in 0 .. (length(curves[id].points) - 2)

C5_Witness ==
    /\ Evaluated
    /\ lastCall.outcome # Err("OUT_OF_RANGE")
    /\ length(curves[lastCall.id].points) >= 3
    /\ curves[lastCall.id].lastTimeIndex = length(curves[lastCall.id].points) - 2
    /\ Before.lastTimeIndex = 0

SameAs(alone) == lastCall.outcome = alone.outcome /\ curves = alone.curves

(* C6: an evaluate call, with or without an output buffer, changes of the   *)
(* curves only the hint of the curve it is called on: the times and points  *)
(* of every curve, the other curves and the basis matrix stay as they were, *)
(* and what the call returns and stores does not depend on what earlier     *)
(* calls left in the scratch vectors.                                       *)
C6_OnlyHintChanges ==
    /\ bSplineCoefficientMatrix = CoefficientMatrix
    /\ Evaluated
        => /\ \A id \in Instances :
                  IF id = lastCall.id
                  THEN curves[id] = [lastCall.before[id] EXCEPT
                                        !.lastTimeIndex = curves[id].lastTimeIndex]
                  ELSE curves[id] = lastCall.before[id]
           /\ SameAs(evaluate(lastCall.before, lastCall.id, PristineScratch,
                               lastCall.time, Undefined))

C6_Witness ==
    /\ Evaluated
    /\ lastCall.withResult
    /\ \A id \in Instances : curves[id].kind = "curve"
    /\ curves[lastCall.id].lastTimeIndex # Before.lastTimeIndex
    /\ scratchTimeVec # PristineScratch.timeVec

(* C8: the four weights evaluate obtains for an in-range time, by           *)
(* multiplying (u^3, u^2, u, 1) by the basis matrix, sum to exactly 1 and   *)
(* each is >= 0.                                                            *)
C8_WeightsPartitionUnity ==
    (Evaluated /\ InRange(lastCall.time, Before.times))
        => /\ lastCall.coefs.kind = "Cartesian4"
           /\ Plus(Plus(lastCall.coefs.x, lastCall.coefs.y),
                   Plus(lastCall.coefs.z, lastCall.coefs.w)) = Num(1)
           /\ \A c \in {lastCall.coefs.x, lastCall.coefs.y, lastCall.coefs.z,
                         lastCall.coefs.w} : Leq(Num(0), c)

(* C10: on every curve with at least 3 points, evaluate(times[0]) returns   *)
(* points[0] and evaluate(times[last]) returns points[last], whatever the   *)
(* hint was before the call.                                                *)
C10_EndpointsInterpolated ==
    (Evaluated /\ length(Before.points) >= 3)
        => /\ lastCall.time = first(Before.times)
                => lastCall.outcome = At(Before.points, 0)
           /\ lastCall.time = last(Before.times)
                => lastCall.outcome = At(Before.points, length(Before.points) - 1)

(* C7: when two evaluate calls, each on its own curve, interleave step by   *)
(* step, each call computes from what it wrote itself (no step of the other *)
(* call changes what it reads) and returns what it returns when run alone.  *)
C7_InterleavingSafe ==
    \A id \in Instances :
        /\ pc[id] = "l144"
            => scratchTimeVec =
                   TimeVec(scratchTimeVec,
                           LocalParameter(frame[id].time, curves[id].times, frame[id].i))
        /\ pc[id] = "done"
            => frame[id].outcome =
                   evaluate(curves, id, PristineScratch, frame[id].time, Undefined).outcome

Reflect(a, b) == Cartesian3_subtract(Cartesian3_multiplyByScalar(a, Num(2)), b)

(* C9: for every located interval i in [0, len-2] the four control points   *)
(* are (2*points[0] - points[1], points[0], points[1], points[2]) when      *)
(* i = 0, (points[i-1], points[i], points[i+1], 2*points[i+1] - points[i])  *)
(* when i = len-2, (points[i-1], points[i], points[i+1], points[i+2])       *)
(* otherwise, and none of the four is a missing element.                    *)
C9_ControlPointWindow ==
    lastCall.op = "controlPoints"
        => LET pts == curves[1].points
               i == curves[1].lastTimeIndex
               w == lastCall.window
           IN  /\ \A p \in {w.p0, w.p1, w.p2, w.p3} : IsPoint(p)
               /\ w = IF i = 0
                      THEN [p0 |-> Reflect(At(pts, 0), At(pts, 1)), p1 |-> At(pts, 0),
                            p2 |-> At(pts, 1), p3 |-> At(pts, 2)]
                      ELSE IF i = length(pts) - 2
                      THEN [p0 |-> At(pts, i - 1), p1 |-> At(pts, i), p2 |-> At(pts, i + 1),
                            p3 |-> Reflect(At(pts, i + 1), At(pts, i))]
                      ELSE [p0 |-> At(pts, i - 1), p1 |-> At(pts, i), p2 |-> At(pts, i + 1),
                            p3 |-> At(pts, i + 2)]

====
